---- MODULE Spec2Model ----
(***************************************************************************)
(* Model of the two energy-vs-volume Test Drivers of the repository:       *)
(*   "inplace"  : src/test_driver.py              (deforms self.atoms)      *)
(*   "symaware" : src/test_driver/test_driver.py  (deforms fresh copies     *)
(*                from _get_atoms(), checks symmetry, commits the nominal   *)
(*                structure)                                                *)
(* One driver instance is called repeatedly; every call runs _calculate.    *)
(*                                                                         *)
(* Numbers.  Python floats are modelled as exact rationals <<num, den>>     *)
(* with den > 0, kept in lowest terms, so equal values are equal tuples.    *)
(*                                                                         *)
(* Cells.  Every cell the drivers build is an isotropic multiple of the     *)
(* cell the driver was given: C = C0 * s^(1/3).  A cell is represented by   *)
(* the rational s (its volume relative to C0).  For s > 0 the map           *)
(* s -> C0 * s^(1/3) is injective, so two cells are equal exactly when      *)
(* their representations are equal.  The scan parameters are kept within    *)
(* |max_volume_scale| < 1 so that every volume scale is positive.           *)
(*                                                                         *)
(* Collaborators that are not part of the repository (the calculator, the   *)
(* minimiser, the symmetry check, the commit of the nominal structure) are  *)
(* the environment: which of them fails at a grid point is chosen           *)
(* nondeterministically by the outcome of the point.                        *)
(***************************************************************************)
EXTENDS Integers, Sequences, FiniteSets, TLC

\* ------------------------------------------------------------------ bounds
\* largest num_steps a caller passes
MaxSteps == 2
\* max_volume_scale ranges over -MaxMvs/MvsDen .. MaxMvs/MvsDen
MaxMvs == 1
MvsDen == 4
\* grid points evaluated over the lifetime of one driver instance
MaxPoints == 8

\* --------------------------------------------------------------- rationals
Abs(x) == IF x < 0 THEN -x ELSE x

RECURSIVE GCD(_, _)
GCD(a, b) == IF b = 0 THEN a ELSE GCD(b, a % b)

Rat(n, d) == LET g == GCD(Abs(n), d) IN <<n \div g, d \div g>>

One == <<1, 1>>

RatInt(k) == <<k, 1>>

RatAdd(p, q) == Rat(p[1] * q[2] + q[1] * p[2], p[2] * q[2])

RatMul(p, q) == Rat(p[1] * q[1], p[2] * q[2])

\* p / k for an integer k > 0
RatDiv(p, k) == Rat(p[1], p[2] * k)

RatLess(p, q) == p[1] * q[2] < q[1] * p[2]

RECURSIVE SumSeq(_)
SumSeq(s) == IF s = <<>> THEN 0 ELSE Head(s) + SumSeq(Tail(s))

\* ------------------------------------------------- external collaborators
\* get_stoich_reduced_list_from_prototype: the stoichiometric multiplicities
\* encoded in the first field of an AFLOW prototype label
get_stoich_reduced_list_from_prototype(label) ==
    CASE label = "A_cI2_229_a"       -> <<1>>
      [] label = "AB_oP8_62_c_c"     -> <<1, 1>>
      [] label = "A2B_hP9_189_fg_ad" -> <<2, 1>>

\* the structures a driver is run on: label, atoms in the cell, volume of the
\* undeformed cell (angstrom^3, rounded)
Structures ==
    { [prototype_label |-> "A_cI2_229_a",       num_atoms |-> 2, volume |-> 24],
      [prototype_label |-> "A2B_hP9_189_fg_ad", num_atoms |-> 9, volume |-> 90] }

Variants == {"inplace", "symaware"}

\* what happens inside the try block of one grid point
\*   ok               every call succeeded (and the symmetry is unchanged)
\*   energy_raises    get_potential_energy raised an Exception
\*   minimize_raises  minimize_wrapper raised an Exception
\*   symmetry_changed _verify_unchanged_symmetry returned False
\*   stress_raises    get_stress raised an Exception
\*   commit_raises    _update_nominal_parameter_values detected a symmetry
\*                    change and raised
\*   interrupt        a BaseException that is no Exception (KeyboardInterrupt,
\*                    SystemExit) was raised inside the try block
OutcomesInPlace == {"ok", "energy_raises", "interrupt"}

OutcomesSymAware ==
    {"ok", "minimize_raises", "symmetry_changed", "energy_raises",
     "stress_raises", "commit_raises", "interrupt"}

\* the calculator: total potential energy of the cell, N * (s - 2) eV
PotentialEnergy(num_atoms, cell) ==
    RatMul(RatInt(num_atoms), RatAdd(cell, RatInt(-2)))

\* the calculator: hydrostatic stress of the cell, 1 - s
Stress(cell) == RatAdd(One, <<-cell[1], cell[2]>>)

\* atoms.get_volume()
GetVolume(structure, cell) == RatMul(RatInt(structure.volume), cell)

\* ------------------------------------------------------------------- state
VARIABLES
    variant,             \* which of the two drivers this instance is
    structure,           \* the crystal the driver is run on
    max_volume_scale,    \* the max_volume_scale the caller passes (rational)
    cell,                \* inplace: cell of self.atoms; symaware: cell of the
                         \* nominal structure (what _get_atoms() returns)
    property_instances,  \* the driver's accumulated property instances
    pc,                  \* "idle" (no call running) or "loop" (inside _calculate)
    callStatus,          \* how the last call ended: "none", "returned", "raised"
    num_steps,           \* locals of the running _calculate
    step_size,
    original_cell,
    i,
    volume_per_atom,
    volume_per_formula,
    binding_potential_energy_per_atom,
    binding_potential_energy_per_formula,
    disclaimer,
    potential_energy,
    lastOutcome,         \* history: outcome of the last grid point evaluated
    attempted,           \* history: the grid points of the running/last scan
    firstIndex,          \* history: where the records of the running scan begin
    scanLog,             \* history: one entry per scan that returned
    pointsUsed,          \* history: grid points evaluated so far
    lammpsLog            \* history: the last evaluation by the external engine

locals ==
    <<num_steps, step_size, original_cell, i, volume_per_atom, volume_per_formula,
      binding_potential_energy_per_atom, binding_potential_energy_per_formula,
      disclaimer, potential_energy>>

history == <<lastOutcome, attempted, firstIndex, scanLog, pointsUsed, lammpsLog>>

vars ==
    <<variant, structure, max_volume_scale, cell, property_instances, pc,
      callStatus, locals, history>>

\* a local name that has not been assigned yet
Unbound == <<>>

\* Python's None
None == "None"

num_atoms == structure.num_atoms

num_atoms_in_formula ==
    SumSeq(get_stoich_reduced_list_from_prototype(structure.prototype_label))

\* ------------------------------------------------------ pieces of the scan
\* what the division leaves in place of a quotient when the divisor is 0
ZeroDivisionError == <<>>

\* mutant: the divisor is guarded, step_size = max_volume_scale / max(num_steps, 1)
StepSize_Guarded(mvs, n) == IF n = 0 THEN mvs ELSE RatDiv(mvs, n)

\* step_size = max_volume_scale / num_steps
StepSize(mvs, n) == IF n = 0 THEN ZeroDivisionError ELSE RatDiv(mvs, n)

\* mutant: the grid is shifted by one step
VolumeScale_OffByOne(step, k) == RatAdd(One, RatMul(step, RatInt(k + 1)))

\* volume_scale = 1 + step_size * i
VolumeScale(step, k) == RatAdd(One, RatMul(step, RatInt(k)))

\* mutant: the structure as it is now is scaled, not the captured cell
DeformedCell_Compounds(orig_cell, volume_scale) == RatMul(cell, volume_scale)

\* original_cell * linear_scale, linear_scale = volume_scale ** (1/3)
DeformedCell(orig_cell, volume_scale) == RatMul(orig_cell, volume_scale)

\* mutant: once bound, potential_energy is not assigned again
EvaluatedEnergy_KeepsFirst(previous, assigned, fresh) ==
    IF previous # Unbound THEN previous
    ELSE IF assigned THEN fresh ELSE previous

\* potential_energy after the try block: assigned when get_potential_energy()
\* returned, else what the earlier iterations left in the variable
EvaluatedEnergy(previous, assigned, fresh) ==
    IF assigned THEN fresh ELSE previous

\* the outcomes that raise inside the try block
Raises(outcome) ==
    outcome \in {"energy_raises", "minimize_raises", "stress_raises",
                 "commit_raises", "interrupt"}

\* mutant: no except clause around the evaluation
CaughtInPlace_Nothing(outcome) == FALSE

\* `except:` catches everything
CaughtInPlace(outcome) == Raises(outcome)

\* mutant: no except clause around the evaluation
CaughtSymAware_Nothing(outcome) == FALSE

\* mutant: the commit of the nominal structure is outside the try block
CaughtSymAware_NotCommit(outcome) ==
    Raises(outcome) /\ outcome \notin {"interrupt", "commit_raises"}

\* `except Exception:` lets a BaseException pass
CaughtSymAware(outcome) == Raises(outcome) /\ outcome # "interrupt"

\* the disclaimer strings
DisclaimerInPlace ==
    "At least one of the requested deformations of the unit cell failed to compute a potential energy."

DisclaimerSymAware ==
    "At least one of the requested deformations of the unit cell underwent a phase transformation or otherwise failed to evaluate."

\* mutant: the disclaimer is kept on the driver and never reset
InitialDisclaimer_Carried(previous) == previous

\* disclaimer = None at the start of every call
InitialDisclaimer(previous) == None

\* mutant: the append to volume_per_formula is forgotten
AppendSample_ForgetsFormula(current_volume_per_atom, energy) ==
    LET current_binding_potential_energy_per_atom == RatDiv(energy, num_atoms)
    IN  /\ volume_per_atom' = Append(volume_per_atom, current_volume_per_atom)
        /\ volume_per_formula' = volume_per_formula
        /\ binding_potential_energy_per_atom' =
               Append(binding_potential_energy_per_atom,
                      current_binding_potential_energy_per_atom)
        /\ binding_potential_energy_per_formula' =
               Append(binding_potential_energy_per_formula,
                      RatMul(current_binding_potential_energy_per_atom,
                             RatInt(num_atoms_in_formula)))

\* mutant: the volume is put in front of volume_per_atom
AppendSample_Prepends(current_volume_per_atom, energy) ==
    LET current_binding_potential_energy_per_atom == RatDiv(energy, num_atoms)
    IN  /\ volume_per_atom' = <<current_volume_per_atom>> \o volume_per_atom
        /\ volume_per_formula' =
               Append(volume_per_formula,
                      RatMul(current_volume_per_atom, RatInt(num_atoms_in_formula)))
        /\ binding_potential_energy_per_atom' =
               Append(binding_potential_energy_per_atom,
                      current_binding_potential_energy_per_atom)
        /\ binding_potential_energy_per_formula' =
               Append(binding_potential_energy_per_formula,
                      RatMul(current_binding_potential_energy_per_atom,
                             RatInt(num_atoms_in_formula)))

\* mutant: the energy of the whole cell is recorded as the energy per atom
AppendSample_EnergyOfCell(current_volume_per_atom, energy) ==
    LET current_binding_potential_energy_per_atom == energy
    IN  /\ volume_per_atom' = Append(volume_per_atom, current_volume_per_atom)
        /\ volume_per_formula' =
               Append(volume_per_formula,
                      RatMul(current_volume_per_atom, RatInt(num_atoms_in_formula)))
        /\ binding_potential_energy_per_atom' =
               Append(binding_potential_energy_per_atom,
                      current_binding_potential_energy_per_atom)
        /\ binding_potential_energy_per_formula' =
               Append(binding_potential_energy_per_formula,
                      RatMul(current_binding_potential_energy_per_atom,
                             RatInt(num_atoms_in_formula)))

\* the four appends of a successful grid point
AppendSample(current_volume_per_atom, energy) ==
    LET current_binding_potential_energy_per_atom == RatDiv(energy, num_atoms)
    IN  /\ volume_per_atom' = Append(volume_per_atom, current_volume_per_atom)
        /\ volume_per_formula' =
               Append(volume_per_formula,
                      RatMul(current_volume_per_atom, RatInt(num_atoms_in_formula)))
        /\ binding_potential_energy_per_atom' =
               Append(binding_potential_energy_per_atom,
                      current_binding_potential_energy_per_atom)
        /\ binding_potential_energy_per_formula' =
               Append(binding_potential_energy_per_formula,
                      RatMul(current_binding_potential_energy_per_atom,
                             RatInt(num_atoms_in_formula)))

KeepSamples ==
    UNCHANGED <<volume_per_atom, volume_per_formula,
                binding_potential_energy_per_atom,
                binding_potential_energy_per_formula>>

\* mutant: the method is named but not called, the nominal structure stays
RecommitOriginal_NotInvoked(nominal_cell, original_atoms_cell) == nominal_cell

\* self._update_nominal_parameter_values(original_atoms) after the loop: the
\* nominal structure becomes the structure captured at the start of the call
RecommitOriginal(nominal_cell, original_atoms_cell) == original_atoms_cell

\* ------------------------------------------------------ property instances
\* _add_property_instance_and_common_crystal_genome_keys: a new instance at the
\* end of the list.  crystal is the structure description written with the
\* common keys (symaware: the nominal structure at this moment; inplace: not
\* modelled, <<>>); stress <<>> and temp "none" stand for "not written".
NewInstance(name, crystal, stress, temp, disc) ==
    [property_name |-> name, crystal |-> crystal, stress |-> stress,
     temp |-> temp, disclaimer |-> disc, keys |-> <<>>]

\* mutant: the new instance replaces the list
AddPropertyInstance_Overwrites(instances, inst) == <<inst>>

AddPropertyInstance(instances, inst) == Append(instances, inst)

\* mutant: the key goes to the first instance of the list
AddKey_ToFirst(instances, key, value, unit, uncert) ==
    [instances EXCEPT ![1] =
        [@ EXCEPT !.keys =
            [k \in (DOMAIN @) \cup {key} |->
                IF k = key
                THEN [value |-> value, unit |-> unit, uncert |-> uncert]
                ELSE @[k]]]]

\* _add_key_to_current_property_instance: the key goes to the last instance
AddKey(instances, key, value, unit, uncert) ==
    [instances EXCEPT ![Len(instances)] =
        [@ EXCEPT !.keys =
            [k \in (DOMAIN @) \cup {key} |->
                IF k = key
                THEN [value |-> value, unit |-> unit, uncert |-> uncert]
                ELSE @[k]]]]

Zeros(n) == [k \in 1..n |-> 0]

\* the four keys of the energy-vs-volume instance, in the order of the code
AddCurveKeys(instances) ==
    LET uncertainty_info == Zeros(Len(binding_potential_energy_per_atom))
        k1 == AddKey(instances, "volume-per-atom", volume_per_atom,
                     "angstrom^3", <<>>)
        k2 == AddKey(k1, "volume-per-formula", volume_per_formula,
                     "angstrom^3", <<>>)
        k3 == AddKey(k2, "binding-potential-energy-per-atom",
                     binding_potential_energy_per_atom, "eV", uncertainty_info)
    IN  AddKey(k3, "binding-potential-energy-per-formula",
               binding_potential_energy_per_formula, "eV", uncertainty_info)

\* self._add_file_to_current_property_instance("cat-picture", save_path)
AddFile(instances, key, path) == AddKey(instances, key, path, "file", <<>>)

EVV == "energy-vs-volume-isotropic-crystal"

NPT == "crystal-structure-npt"

\* ------------------------------------------- LAMMPS-backed energy evaluator
\* The evaluation of the energy by the external engine: the atom styles are
\* tried in this order, the first one the model accepts gives the energy, and
\* the evaluation fails when the model accepts none of them.
AtomStyles == <<"atomic", "charge">>

NoEvaluation == [accepts |-> {}, tried |-> <<>>, ok |-> FALSE]

RECURSIVE TryStyles(_, _, _)
TryStyles(styles, accepts, tried) ==
    IF styles = <<>>
    THEN [accepts |-> accepts, tried |-> tried, ok |-> FALSE]
    ELSE IF Head(styles) \in accepts
         THEN [accepts |-> accepts, tried |-> Append(tried, Head(styles)),
               ok |-> TRUE]
         ELSE TryStyles(Tail(styles), accepts, Append(tried, Head(styles)))

\* mutant: only the "atomic" style is tried
LammpsEnergy_AtomicOnly(accepts) == TryStyles(<<"atomic">>, accepts, <<>>)

LammpsEnergy(accepts) == TryStyles(AtomStyles, accepts, <<>>)

\* ------------------------------------------------------------------- Init
Init ==
    /\ variant \in Variants
    /\ structure \in Structures
    /\ max_volume_scale \in {Rat(m, MvsDen) : m \in (-MaxMvs)..MaxMvs}
    /\ cell = One
    /\ property_instances = <<>>
    /\ pc = "idle"
    /\ callStatus = "none"
    /\ num_steps = 1
    /\ step_size = RatInt(0)
    /\ original_cell = One
    /\ i = 0
    /\ volume_per_atom = <<>>
    /\ volume_per_formula = <<>>
    /\ binding_potential_energy_per_atom = <<>>
    /\ binding_potential_energy_per_formula = <<>>
    /\ disclaimer = None
    /\ potential_energy = Unbound
    /\ lastOutcome = "none"
    /\ attempted = <<>>
    /\ firstIndex = 1
    /\ scanLog = <<>>
    /\ pointsUsed = 0
    /\ lammpsLog = NoEvaluation

\* ---------------------------------------------------------------- actions
\* The caller invokes the driver: _calculate runs up to the head of the loop.
\* num_steps = 0 raises ZeroDivisionError at the step_size division.
Call(n) ==
    /\ pc = "idle"
    /\ n \in 0..MaxSteps
    /\ pointsUsed + 2 * n + 1 <= MaxPoints
    /\ IF StepSize(max_volume_scale, n) = ZeroDivisionError
       THEN /\ callStatus' = "raised"
            /\ UNCHANGED <<pc, locals, history>>
       ELSE /\ pc' = "loop"
            /\ callStatus' = "none"
            /\ original_cell' = cell
            /\ num_steps' = n
            /\ step_size' = StepSize(max_volume_scale, n)
            /\ i' = -n
            /\ volume_per_atom' = <<>>
            /\ volume_per_formula' = <<>>
            /\ binding_potential_energy_per_atom' = <<>>
            /\ binding_potential_energy_per_formula' = <<>>
            /\ disclaimer' = InitialDisclaimer(disclaimer)
            /\ potential_energy' = Unbound
            /\ lastOutcome' = "none"
            /\ attempted' = <<>>
            /\ firstIndex' = Len(property_instances) + 1
            /\ UNCHANGED <<scanLog, pointsUsed, lammpsLog>>
    /\ UNCHANGED <<variant, structure, max_volume_scale, cell, property_instances>>

\* history of one grid point
Log(outcome, volume_scale, new_cell) ==
    /\ lastOutcome' = outcome
    /\ attempted' = Append(attempted,
                           [i |-> i, volume_scale |-> volume_scale,
                            cell |-> new_cell, ok |-> outcome = "ok"])
    /\ pointsUsed' = pointsUsed + 1
    /\ UNCHANGED <<firstIndex, scanLog>>

\* One iteration of the loop of src/test_driver.py, the evaluation of the
\* energy ending with the given outcome
InPlacePoint(outcome) ==
    /\ variant = "inplace"
    /\ pc = "loop"
    /\ i <= num_steps
    /\ outcome \in OutcomesInPlace
    /\ LET volume_scale == VolumeScale(step_size, i)
           new_cell == DeformedCell(original_cell, volume_scale)
           volume == GetVolume(structure, new_cell)
           current_volume_per_atom == RatDiv(volume, num_atoms)
           propagates == Raises(outcome) /\ ~CaughtInPlace(outcome)
           problem_occurred == CaughtInPlace(outcome)
       IN  /\ cell' = new_cell
           /\ potential_energy' =
                  EvaluatedEnergy(potential_energy, ~Raises(outcome),
                                  PotentialEnergy(num_atoms, new_cell))
           /\ Log(outcome, volume_scale, new_cell)
           /\ IF propagates
              THEN /\ pc' = "idle"
                   /\ callStatus' = "raised"
                   /\ KeepSamples
                   /\ UNCHANGED <<disclaimer, i>>
              ELSE /\ UNCHANGED <<pc, callStatus>>
                   /\ i' = i + 1
                   /\ IF problem_occurred
                      THEN /\ disclaimer' = DisclaimerInPlace
                           /\ KeepSamples
                      ELSE /\ UNCHANGED disclaimer
                           /\ AppendSample(current_volume_per_atom, potential_energy')
    /\ UNCHANGED <<variant, structure, max_volume_scale, property_instances,
                   num_steps, step_size, original_cell>>

\* One iteration of the loop of src/test_driver.py with the in-process
\* calculator attached to self.atoms
StepInPlace(outcome) ==
    /\ InPlacePoint(outcome)
    /\ UNCHANGED lammpsLog

\* After the loop of src/test_driver.py: one energy-vs-volume instance
FinishInPlace ==
    /\ variant = "inplace"
    /\ pc = "loop"
    /\ i > num_steps
    /\ property_instances' =
           AddCurveKeys(
               AddPropertyInstance(property_instances,
                   NewInstance(EVV, <<>>, <<>>, "none", disclaimer)))
    /\ pc' = "idle"
    /\ callStatus' = "returned"
    /\ scanLog' = Append(scanLog,
                         [num_steps |-> num_steps, cell_before |-> original_cell,
                          cell_after |-> cell, attempted |-> attempted,
                          first |-> firstIndex,
                          last |-> Len(property_instances')])
    /\ UNCHANGED <<variant, structure, max_volume_scale, cell, locals,
                   lastOutcome, attempted, firstIndex, pointsUsed, lammpsLog>>

\* mutant: the energy is evaluated before the symmetry is verified
EnergyAssigned_BeforeVerify(outcome) ==
    outcome \in {"ok", "stress_raises", "commit_raises", "symmetry_changed"}

\* atoms.get_potential_energy() is reached and returns: the minimisation
\* went through and the symmetry is unchanged
EnergyAssigned(outcome) == outcome \in {"ok", "stress_raises", "commit_raises"}

\* One iteration of the loop of src/test_driver/test_driver.py
StepSymAware(outcome) ==
    /\ variant = "symaware"
    /\ pc = "loop"
    /\ i <= num_steps
    /\ outcome \in OutcomesSymAware
    /\ LET volume_scale == VolumeScale(step_size, i)
           atoms_cell == DeformedCell(original_cell, volume_scale)
           volume == GetVolume(structure, atoms_cell)
           current_volume_per_atom == RatDiv(volume, num_atoms)
           propagates == Raises(outcome) /\ ~CaughtSymAware(outcome)
           problem_occurred ==
               outcome = "symmetry_changed" \/ CaughtSymAware(outcome)
           energy_assigned == EnergyAssigned(outcome)
           stress == Stress(atoms_cell)
       IN  /\ potential_energy' =
                  EvaluatedEnergy(potential_energy, energy_assigned,
                                  PotentialEnergy(num_atoms, atoms_cell))
           \* _update_nominal_parameter_values(atoms) is reached and succeeds
           /\ cell' = IF outcome = "ok" THEN atoms_cell ELSE cell
           /\ Log(outcome, volume_scale, atoms_cell)
           /\ IF propagates
              THEN /\ pc' = "idle"
                   /\ callStatus' = "raised"
                   /\ KeepSamples
                   /\ UNCHANGED <<disclaimer, property_instances, i>>
              ELSE /\ UNCHANGED <<pc, callStatus>>
                   /\ i' = i + 1
                   /\ IF problem_occurred
                      THEN /\ disclaimer' = DisclaimerSymAware
                           /\ KeepSamples
                           /\ UNCHANGED property_instances
                      ELSE /\ UNCHANGED disclaimer
                           /\ AppendSample(current_volume_per_atom, potential_energy')
                           /\ property_instances' =
                                  AddPropertyInstance(property_instances,
                                      NewInstance(NPT, cell', stress, "nominal", None))
    /\ UNCHANGED <<variant, structure, max_volume_scale, num_steps, step_size,
                   original_cell, lammpsLog>>

\* After the loop of src/test_driver/test_driver.py: the original structure is
\* committed as nominal again, then one energy-vs-volume instance is written
FinishSymAware ==
    /\ variant = "symaware"
    /\ pc = "loop"
    /\ i > num_steps
    /\ cell' = RecommitOriginal(cell, original_cell)
    /\ property_instances' =
           AddFile(
               AddCurveKeys(
                   AddPropertyInstance(property_instances,
                       NewInstance(EVV, cell', <<>>, "none", disclaimer))),
               "cat-picture", "cat.jpg")
    /\ pc' = "idle"
    /\ callStatus' = "returned"
    /\ scanLog' = Append(scanLog,
                         [num_steps |-> num_steps, cell_before |-> original_cell,
                          cell_after |-> cell', attempted |-> attempted,
                          first |-> firstIndex,
                          last |-> Len(property_instances')])
    /\ UNCHANGED <<variant, structure, max_volume_scale, locals,
                   lastOutcome, attempted, firstIndex, pointsUsed, lammpsLog>>

\* One iteration of the loop of src/test_driver.py when the energy comes from
\* the external engine: accepts is the set of atom styles the model accepts
\* for this configuration; an exhausted fallback is an evaluation failure
StepLammps(accepts) ==
    /\ accepts \subseteq {"atomic", "charge"}
    /\ lammpsLog' = LammpsEnergy(accepts)
    /\ InPlacePoint(IF lammpsLog'.ok THEN "ok" ELSE "energy_raises")

Next ==
    \/ \E n \in 0..MaxSteps : Call(n)
    \/ \E outcome \in OutcomesInPlace : StepInPlace(outcome)
    \/ FinishInPlace
    \/ \E outcome \in OutcomesSymAware : StepSymAware(outcome)
    \/ FinishSymAware

Spec == Init /\ [][Next]_vars

\* the in-place driver run with the LAMMPS-backed evaluator
InitLammps == Init /\ variant = "inplace"

NextLammps ==
    \/ \E n \in 0..MaxSteps : Call(n)
    \/ \E accepts \in SUBSET {"atomic", "charge"} : StepLammps(accepts)
    \/ FinishInPlace

SpecLammps == InitLammps /\ [][NextLammps]_vars

\* ================================================================== claims
Returned == pc = "idle" /\ callStatus = "returned"

CurveKeys ==
    {"volume-per-atom", "volume-per-formula",
     "binding-potential-energy-per-atom", "binding-potential-energy-per-formula"}

\* the energy-vs-volume record a logged scan emitted
RecordOf(e) == property_instances[e.last]

Succeeded(e) == {k \in 1..Len(e.attempted) : e.attempted[k].ok}

Failed(e) == {k \in 1..Len(e.attempted) : ~e.attempted[k].ok}

\* a failure of the evaluation of a grid point: an Exception raised by the
\* calculator, the minimiser or the commit, or a changed symmetry
EvaluationFailure(outcome) ==
    outcome \in {"energy_raises", "minimize_raises", "stress_raises",
                 "commit_raises", "symmetry_changed"}

\* this step evaluates a grid point
PointStep == pointsUsed' = pointsUsed + 1

SamplesUnchanged ==
    /\ volume_per_atom' = volume_per_atom
    /\ volume_per_formula' = volume_per_formula
    /\ binding_potential_energy_per_atom' = binding_potential_energy_per_atom
    /\ binding_potential_energy_per_formula' = binding_potential_energy_per_formula

\* ---------------------------------------------------------------------- C1
\* C1 (as claimed): after every scan that returns, the cell of the driver's
\* structure equals the cell it had immediately before the call, in both
\* variants.
C1_RoundTrip ==
    \A k \in 1..Len(scanLog) : scanLog[k].cell_after = scanLog[k].cell_before

\* ---------------------------------------------------------------------- C2
\* the grid indices -n .. upto, in order
GridIndices(n, upto) == [k \in 1..(upto + n + 1) |-> k - n - 1]

Indices(att) == [k \in 1..Len(att) |-> att[k].i]

\* C2: a failure at a grid point never aborts the scan.  While a scan runs the
\* points attempted so far are -num_steps .. i-1, each once and in order; a
\* scan that returned attempted
\* exactly -num_steps .. num_steps and its last record is the energy-vs-volume
\* record; a grid point whose evaluation fails appends nothing to any of the
\* four sequences and leaves the scan running; and a scan only ends by emitting
\* its record or by an interrupt.
C2_LoopInv ==
    /\ pc = "loop" =>
          /\ i \in (-num_steps)..(num_steps + 1)
          /\ Indices(attempted) = GridIndices(num_steps, i - 1)
    /\ \A k \in 1..Len(scanLog) :
          /\ Indices(scanLog[k].attempted) =
                 GridIndices(scanLog[k].num_steps, scanLog[k].num_steps)
          /\ Len(scanLog[k].attempted) = 2 * scanLog[k].num_steps + 1
          /\ RecordOf(scanLog[k]).property_name = EVV

C2_StepAct ==
    /\ (PointStep /\ EvaluationFailure(lastOutcome')) =>
          /\ pc' = "loop"
          /\ callStatus' # "raised"
          /\ SamplesUnchanged
    /\ (pc = "loop" /\ pc' = "idle") =>
          \/ /\ PointStep
             /\ lastOutcome' = "interrupt"
          \/ /\ ~PointStep
             /\ callStatus' = "returned"
             /\ Len(scanLog') = Len(scanLog) + 1
             /\ property_instances'[Len(property_instances')].property_name = EVV
             /\ CurveKeys \subseteq
                    DOMAIN property_instances'[Len(property_instances')].keys

C2_FailureNeverAborts == []C2_LoopInv /\ [][C2_StepAct]_vars

\* a scan of five points returned although some of them failed
C2_Witness ==
    /\ Returned
    /\ Len(scanLog) > 0
    /\ LET e == scanLog[Len(scanLog)]
       IN  /\ e.num_steps = 2
           /\ Failed(e) # {}
           /\ Succeeded(e) # {}

\* ---------------------------------------------------------------------- C3
Value(r, key) == r.keys[key].value

\* C3: in every emitted energy-vs-volume record the four sequences have the
\* same length, the number of grid points of that scan that succeeded.
C3_ParallelLengths ==
    \A k \in 1..Len(scanLog) :
        LET e == scanLog[k]
            r == RecordOf(e)
        IN  /\ CurveKeys \subseteq DOMAIN r.keys
            /\ \A key \in CurveKeys :
                   Len(Value(r, key)) = Cardinality(Succeeded(e))

\* num_steps = 2, exactly one grid point failed: four entries in each sequence
C3_Witness ==
    /\ Returned
    /\ Len(scanLog) > 0
    /\ LET e == scanLog[Len(scanLog)]
       IN  /\ e.num_steps = 2
           /\ Cardinality(Failed(e)) = 1
           /\ ~e.attempted[3].ok
           /\ \A key \in CurveKeys : Len(Value(RecordOf(e), key)) = 4

\* ---------------------------------------------------------------------- C4
Disclaimers == {DisclaimerInPlace, DisclaimerSymAware}

\* C4: the disclaimer of the record of a scan is a non-empty string if and
\* only if a grid point of that same scan failed, and None otherwise (whatever
\* happened in earlier scans of the driver); during a scan a disclaimer that
\* is set stays set.
C4_RecordInv ==
    \A k \in 1..Len(scanLog) :
        LET e == scanLog[k]
            r == RecordOf(e)
        IN  /\ Failed(e) # {} => r.disclaimer \in Disclaimers /\ r.disclaimer # ""
            /\ Failed(e) = {} => r.disclaimer = None

C4_KeepAct ==
    (pc = "loop" /\ pc' = "loop" /\ disclaimer # None) => disclaimer' = disclaimer

C4_DisclaimerIffFailure == []C4_RecordInv /\ [][C4_KeepAct]_vars

\* a scan with a failure was followed by a scan without one, and within a scan
\* a failure was followed by a success
C4_Witness ==
    /\ Returned
    /\ Len(scanLog) >= 2
    /\ LET e1 == scanLog[Len(scanLog) - 1]
           e2 == scanLog[Len(scanLog)]
       IN  /\ ~e1.attempted[1].ok
           /\ e1.attempted[Len(e1.attempted)].ok
           /\ RecordOf(e1).disclaimer # None
           /\ Failed(e2) = {}
           /\ RecordOf(e2).disclaimer = None

\* ---------------------------------------------------------------------- C5
\* C5: when the evaluation fails at every grid point the scan does not raise:
\* each failing point leaves the scan running, and the record the scan emits
\* has four empty sequences and a disclaimer.
C5_RecordInv ==
    \A k \in 1..Len(scanLog) :
        LET e == scanLog[k]
            r == RecordOf(e)
        IN  Succeeded(e) = {} =>
                /\ \A key \in CurveKeys : Value(r, key) = <<>>
                /\ r.disclaimer \in Disclaimers

C5_NoRaiseAct ==
    /\ (PointStep /\ EvaluationFailure(lastOutcome')
          /\ \A k \in 1..Len(attempted') : ~attempted'[k].ok) =>
          /\ pc' = "loop"
          /\ callStatus' # "raised"
    /\ (pc = "loop" /\ ~PointStep /\ \A k \in 1..Len(attempted) : ~attempted[k].ok) =>
          /\ callStatus' = "returned"
          /\ Len(scanLog') = Len(scanLog) + 1

C5_TotalFailure == []C5_RecordInv /\ [][C5_NoRaiseAct]_vars

\* a scan in which every grid point failed has returned
C5_Witness ==
    /\ Returned
    /\ Len(scanLog) > 0
    /\ LET e == scanLog[Len(scanLog)]
       IN  /\ Succeeded(e) = {}
           /\ Len(e.attempted) = 2 * e.num_steps + 1
           /\ \A key \in CurveKeys : Value(RecordOf(e), key) = <<>>
           /\ RecordOf(e).disclaimer # None

\* ---------------------------------------------------------------------- C6
\* the volume scale factors of a scan, in iteration order
Grid(e) == [k \in 1..Len(e.attempted) |-> e.attempted[k].volume_scale]

Ascending(s) == \A k \in 1..(Len(s) - 1) : RatLess(s[k], s[k + 1])

Descending(s) == \A k \in 1..(Len(s) - 1) : RatLess(s[k + 1], s[k])

\* the factors of i and -i sum to 2
SymmetricAroundOne(e) ==
    \A p, q \in 1..Len(e.attempted) :
        e.attempted[p].i = -e.attempted[q].i =>
            RatAdd(e.attempted[p].volume_scale, e.attempted[q].volume_scale)
                = RatInt(2)

Positive(r) == r[1] > 0

Negative(r) == r[1] < 0

\* C6 (as claimed): for every max_volume_scale, zero and negative included, the
\* grid of a scan has 2*num_steps+1 points, is symmetric around 1 and is
\* strictly ascending in iteration order.
C6_Original ==
    \A k \in 1..Len(scanLog) :
        LET e == scanLog[k]
        IN  /\ Len(Grid(e)) = 2 * e.num_steps + 1
            /\ SymmetricAroundOne(e)
            /\ Ascending(Grid(e))

\* C6 (amended): the grid has 2*num_steps+1 points and is symmetric around 1
\* for every max_volume_scale; it is strictly ascending when max_volume_scale
\* is positive, constant 1 when it is zero, strictly descending when negative.
C6_Grid ==
    \A k \in 1..Len(scanLog) :
        LET e == scanLog[k]
        IN  /\ Len(Grid(e)) = 2 * e.num_steps + 1
            /\ SymmetricAroundOne(e)
            /\ Positive(max_volume_scale) => Ascending(Grid(e))
            /\ max_volume_scale = RatInt(0) =>
                   \A p \in 1..Len(Grid(e)) : Grid(e)[p] = One
            /\ Negative(max_volume_scale) => Descending(Grid(e))

\* a five-point scan with a negative max_volume_scale has returned
C6_Witness ==
    /\ Returned
    /\ Len(scanLog) > 0
    /\ Negative(max_volume_scale)
    /\ scanLog[Len(scanLog)].num_steps = 2
    /\ Len(Grid(scanLog[Len(scanLog)])) = 5

\* ---------------------------------------------------------------------- C7
OkPoints(att) == SelectSeq(att, LAMBDA p : p.ok)

\* the volume per atom of the successful grid points, in grid order
VolumesInGridOrder(att) ==
    [k \in 1..Len(OkPoints(att)) |->
        RatDiv(GetVolume(structure, OkPoints(att)[k].cell), num_atoms)]

PerFormula(s) == [k \in 1..Len(s) |-> RatMul(s[k], RatInt(num_atoms_in_formula))]

\* C7: the recorded samples are those of the successful grid points in grid
\* order, during the scan and in the emitted record, so for a positive
\* max_volume_scale the recorded volume-per-atom sequence is strictly
\* ascending whichever points failed.
C7_GridOrder ==
    /\ pc = "loop" =>
          /\ volume_per_atom = VolumesInGridOrder(attempted)
          /\ volume_per_formula = PerFormula(volume_per_atom)
          /\ Positive(max_volume_scale) => Ascending(volume_per_atom)
    /\ \A k \in 1..Len(scanLog) :
          LET e == scanLog[k]
              r == RecordOf(e)
          IN  /\ Value(r, "volume-per-atom") = VolumesInGridOrder(e.attempted)
              /\ Value(r, "volume-per-formula")
                     = PerFormula(Value(r, "volume-per-atom"))
              /\ Positive(max_volume_scale) =>
                     Ascending(Value(r, "volume-per-atom"))

\* five points, the middle one failed, the other four are recorded
C7_Witness ==
    /\ Returned
    /\ Len(scanLog) > 0
    /\ Positive(max_volume_scale)
    /\ LET e == scanLog[Len(scanLog)]
       IN  /\ e.num_steps = 2
           /\ Failed(e) = {3}
           /\ Len(Value(RecordOf(e), "volume-per-atom")) = 4

\* ---------------------------------------------------------------------- C8
\* the evaluator answered as a function of the geometry over two scans
SameAnswers(a1, a2) ==
    \A p \in 1..Len(a1), q \in 1..Len(a2) :
        a1[p].cell = a2[q].cell => a1[p].ok = a2[q].ok

\* C8 (as claimed): two scans in a row with the same parameters, a
\* deterministic evaluator and an untouched structure in between produce the
\* same four sequences, and the geometry after each of them is the geometry
\* before the first.
C8_Idempotent ==
    \A k \in 1..(Len(scanLog) - 1) :
        LET e1 == scanLog[k]
            e2 == scanLog[k + 1]
        IN  (/\ e1.num_steps = e2.num_steps
             /\ e2.cell_before = e1.cell_after
             /\ SameAnswers(e1.attempted, e1.attempted)
             /\ SameAnswers(e2.attempted, e2.attempted)
             /\ SameAnswers(e1.attempted, e2.attempted))
            => /\ \A key \in CurveKeys :
                      Value(RecordOf(e1), key) = Value(RecordOf(e2), key)
               /\ e1.cell_after = e1.cell_before
               /\ e2.cell_after = e1.cell_before

\* ---------------------------------------------------------------------- C9
\* C9: the list of property instances only grows at its end and no record
\* already in it is ever changed; the records of the scans that returned lie
\* in it in call order, each scan's energy-vs-volume record last.
C9_AppendAct ==
    /\ Len(property_instances') >= Len(property_instances)
    /\ \A k \in 1..Len(property_instances) :
           property_instances'[k] = property_instances[k]

C9_OrderInv ==
    /\ \A k \in 1..Len(scanLog) :
          LET e == scanLog[k]
          IN  /\ 1 <= e.first
              /\ e.first <= e.last
              /\ e.last <= Len(property_instances)
              /\ k > 1 => scanLog[k - 1].last < e.first
              /\ RecordOf(e).property_name = EVV
              /\ \A j \in e.first..(e.last - 1) :
                     property_instances[j].property_name = NPT
              /\ Len(Value(RecordOf(e), "volume-per-atom"))
                     = Cardinality(Succeeded(e))
    /\ Cardinality({j \in 1..Len(property_instances) :
                       property_instances[j].property_name = EVV})
           = Len(scanLog)

C9_AppendOnly == []C9_OrderInv /\ [][C9_AppendAct]_vars

\* two scans have returned and their records are both in the list
C9_Witness ==
    /\ Returned
    /\ Len(scanLog) >= 2
    /\ scanLog[1].last < scanLog[2].last
    /\ scanLog[2].last = Len(property_instances)
    /\ Cardinality(Succeeded(scanLog[1])) # Cardinality(Succeeded(scanLog[2]))

\* --------------------------------------------------------------------- C10
\* C10 (as claimed): when the commit of a deformed structure as the nominal
\* structure fails on a symmetry conflict, the failure reaches the caller of
\* the scan.
C10_Original ==
    lastOutcome = "commit_raises" => (pc = "idle" /\ callStatus = "raised")

\* C10 (amended): the commit of a deformed structure as the nominal structure
\* raises on a symmetry conflict, but at a grid point the scan catches it like
\* any other Exception: the sample is dropped, the disclaimer is set, nothing
\* is written, the nominal structure is unchanged and the scan goes on to the
\* next grid point; the caller sees no failure.
C10_CommitAct ==
    (PointStep /\ lastOutcome' = "commit_raises") =>
        /\ pc' = "loop"
        /\ callStatus' = callStatus
        /\ callStatus' # "raised"
        /\ i' = i + 1
        /\ disclaimer' = DisclaimerSymAware
        /\ SamplesUnchanged
        /\ property_instances' = property_instances
        /\ cell' = cell

C10_CommitConflictRecovered == [][C10_CommitAct]_vars

\* a scan whose last grid point had a commit conflict has returned
C10_Witness ==
    /\ Returned
    /\ lastOutcome = "commit_raises"
    /\ Len(scanLog) > 0
    /\ ~scanLog[Len(scanLog)].attempted[Len(scanLog[Len(scanLog)].attempted)].ok
    /\ RecordOf(scanLog[Len(scanLog)]).disclaimer = DisclaimerSymAware

\* --------------------------------------------------------------------- C11
\* C11: in the symmetry-aware variant the structure captured at the start of
\* the scan is the nominal structure again when the energy-vs-volume record
\* is created: the record describes the original structure and the nominal
\* structure after the scan is the original one, whichever points succeeded.
C11_RecordInv ==
    variant = "symaware" =>
        \A k \in 1..Len(scanLog) :
            LET e == scanLog[k]
            IN  /\ RecordOf(e).crystal = e.cell_before
                /\ e.cell_after = e.cell_before

C11_EmitAct ==
    (variant = "symaware" /\ pc = "loop" /\ pc' = "idle" /\ ~PointStep) =>
        /\ cell' = original_cell
        /\ property_instances'[Len(property_instances')].property_name = EVV
        /\ property_instances'[Len(property_instances')].crystal = original_cell

C11_OriginalRecommitted == []C11_RecordInv /\ [][C11_EmitAct]_vars

\* the last grid point succeeded and committed a deformed nominal structure,
\* written in its crystal-structure-npt record, right before the final record
C11_Witness ==
    /\ variant = "symaware"
    /\ Returned
    /\ Len(scanLog) > 0
    /\ LET e == scanLog[Len(scanLog)]
       IN  /\ e.attempted[Len(e.attempted)].ok
           /\ e.last > e.first
           /\ property_instances[e.last - 1].property_name = NPT
           /\ property_instances[e.last - 1].crystal # e.cell_before
           /\ RecordOf(e).crystal = e.cell_before

\* --------------------------------------------------------------------- C12
IsPrefix(s, t) == Len(s) <= Len(t) /\ \A k \in 1..Len(s) : s[k] = t[k]

\* C12: every energy evaluation by the external engine tries the atom styles
\* "atomic", "charge" in this order and stops at the first one the model
\* accepts; the grid point fails only when the model accepts neither.  For a
\* model that accepts only "charge" both styles are tried, the sample is
\* recorded and the caller sees neither an error nor a disclaimer for it.
C12_FallbackAct ==
    PointStep =>
        LET L == lammpsLog'
            point == attempted'[Len(attempted')]
        IN  /\ L.tried # <<>>
            /\ IsPrefix(L.tried, AtomStyles)
            /\ \A k \in 1..(Len(L.tried) - 1) : L.tried[k] \notin L.accepts
            /\ L.ok <=> L.tried[Len(L.tried)] \in L.accepts
            /\ ~L.ok => L.tried = AtomStyles
            /\ point.ok <=> L.accepts # {}
            /\ callStatus' # "raised"
            /\ L.accepts = {"charge"} =>
                   /\ L.tried = <<"atomic", "charge">>
                   /\ point.ok
                   /\ Len(binding_potential_energy_per_atom')
                          = Len(binding_potential_energy_per_atom) + 1
                   /\ binding_potential_energy_per_atom'
                          [Len(binding_potential_energy_per_atom')]
                          = RatDiv(PotentialEnergy(num_atoms, point.cell), num_atoms)
                   /\ disclaimer' = disclaimer

C12_AtomStyleFallback == [][C12_FallbackAct]_vars

\* a scan on a model that only accepts "charge" at its last grid point has
\* returned without a disclaimer
C12_Witness ==
    /\ Returned
    /\ lammpsLog.accepts = {"charge"}
    /\ lammpsLog.tried = <<"atomic", "charge">>
    /\ Len(scanLog) > 0
    /\ Failed(scanLog[Len(scanLog)]) = {}
    /\ RecordOf(scanLog[Len(scanLog)]).disclaimer = None

\* --------------------------------------------------------------------- C13
\* the scale factor 1 + (max_volume_scale / n) * k, written out
ScaleFactor(n, k) ==
    Rat(n * max_volume_scale[2] + max_volume_scale[1] * k, n * max_volume_scale[2])

\* a / b for rationals, b > 0
RatQuot(a, b) == Rat(a[1] * b[2], a[2] * b[1])

\* C13: the k-th entries of the four sequences of a record are those of the
\* k-th successful grid point: with s its scale factor, V0 the volume of the
\* structure at the start of the scan, N the atoms and F the atoms per
\* formula, they are s*V0/N, s*V0/N*F, E/N and E/N*F, E being the energy the
\* calculator gives for the deformed structure.
C13_SampleValues ==
    \A j \in 1..Len(scanLog) :
        LET e == scanLog[j]
            r == RecordOf(e)
            pts == OkPoints(e.attempted)
            V0 == RatMul(RatInt(structure.volume), e.cell_before)
            N == RatInt(structure.num_atoms)
            F == RatInt(num_atoms_in_formula)
        IN  \A k \in 1..Len(pts) :
                LET s == ScaleFactor(e.num_steps, pts[k].i)
                    E == PotentialEnergy(structure.num_atoms, pts[k].cell)
                IN  /\ Value(r, "volume-per-atom")[k] = RatQuot(RatMul(s, V0), N)
                    /\ Value(r, "volume-per-formula")[k]
                           = RatMul(RatQuot(RatMul(s, V0), N), F)
                    /\ Value(r, "binding-potential-energy-per-atom")[k]
                           = RatQuot(E, N)
                    /\ Value(r, "binding-potential-energy-per-formula")[k]
                           = RatMul(RatQuot(E, N), F)

\* num_steps = 1, a positive max_volume_scale m, all three points successful,
\* on the nine-atom A2B structure: volume per atom (1-m)V0/N, V0/N, (1+m)V0/N
C13_Witness ==
    /\ Returned
    /\ Len(scanLog) = 1
    /\ Positive(max_volume_scale)
    /\ structure.num_atoms = 9
    /\ num_atoms_in_formula = 3
    /\ scanLog[1].num_steps = 1
    /\ Failed(scanLog[1]) = {}
    /\ LET V0N == Rat(structure.volume, structure.num_atoms)
           m == max_volume_scale
       IN  Value(RecordOf(scanLog[1]), "volume-per-atom")
               = << RatMul(RatAdd(One, <<-m[1], m[2]>>), V0N),
                    V0N,
                    RatMul(RatAdd(One, m), V0N) >>

\* --------------------------------------------------------------------- C14
\* C14 (as claimed): an error raised inside the evaluation of a grid point
\* that is not an evaluation error (here an interrupt or exit signal)
\* propagates out of the scan: the call raises, no disclaimer is set for it
\* and the scan does not go on to the next grid point.
C14_OnlyEvaluationErrorsRecovered ==
    [][(PointStep /\ lastOutcome' = "interrupt")
           => /\ callStatus' = "raised"
              /\ pc' = "idle"
              /\ disclaimer' = disclaimer]_vars

\* --------------------------------------------------------------------- C15
C15_NoTraceAct ==
    (PointStep /\ variant = "symaware" /\ lastOutcome' = "symmetry_changed")
        => /\ SamplesUnchanged
           /\ property_instances' = property_instances
           /\ cell' = cell
           /\ potential_energy' = potential_energy
           /\ disclaimer' = DisclaimerSymAware
           /\ callStatus' = callStatus
           /\ pc' = "loop"

\* C15: in the symmetry-aware variant a grid point whose relaxed structure
\* fails the unchanged-symmetry check changes nothing but the disclaimer: the
\* four sequences, the list of records, the nominal structure and the
\* loop-carried energy are what they were, and the scan goes on.
C15_SymmetryChangeLeavesNoTrace == [][C15_NoTraceAct]_vars

\* a symmetry change right after a successful point, which left an energy, a
\* sample, a crystal-structure-npt record and a moved nominal structure
C15_Witness ==
    /\ variant = "symaware"
    /\ pc = "loop"
    /\ lastOutcome = "symmetry_changed"
    /\ Len(attempted) = 2
    /\ attempted[1].ok
    /\ Len(volume_per_atom) = 1
    /\ disclaimer = DisclaimerSymAware
    /\ cell = attempted[1].cell
    /\ cell # original_cell
    /\ property_instances # <<>>
    /\ property_instances[Len(property_instances)].property_name = NPT

\* --------------------------------------------------------------------- C16
\* the cell of every point of att is the cell c0 scaled by the scale factor of
\* the point, n being the num_steps of the scan
FromCaptured(att, c0, n) ==
    \A k \in 1..Len(att) :
        att[k].cell = RatMul(c0, ScaleFactor(n, att[k].i))

C16_AppliedInv ==
    /\ pc = "loop" => FromCaptured(attempted, original_cell, num_steps)
    /\ \A j \in 1..Len(scanLog) :
           FromCaptured(scanLog[j].attempted, scanLog[j].cell_before,
                        scanLog[j].num_steps)

C16_AppliedAct ==
    (PointStep /\ variant = "inplace")
        => cell' = RatMul(original_cell, ScaleFactor(num_steps, i))

\* C16: at every grid point i the cell applied to the working structure is
\* the cell captured at the start of the scan scaled by the scale factor of
\* i, whatever the earlier points did to the structure.
C16_NoCompounding == []C16_AppliedInv /\ [][C16_AppliedAct]_vars

\* the third point of a scan whose first point succeeded and moved the
\* nominal structure and whose second point failed
C16_Witness ==
    /\ variant = "symaware"
    /\ pc = "loop"
    /\ Len(attempted) = 3
    /\ attempted[1].ok
    /\ ~attempted[2].ok
    /\ cell = attempted[1].cell
    /\ cell # original_cell
    /\ attempted[3].cell # cell
    /\ attempted[3].cell = RatMul(original_cell, ScaleFactor(num_steps, attempted[3].i))
    /\ attempted[3].cell # RatMul(attempted[1].cell, ScaleFactor(num_steps, attempted[3].i))

\* --------------------------------------------------------------------- C17
\* what the calculator gives for the cell c, per atom
EnergyPerAtomAt(c) == RatAdd(c, RatInt(-2))

\* the volume of the cell c, per atom
VolumePerAtomAt(c) == Rat(structure.volume * c[1], structure.num_atoms * c[2])

\* the k-th volume and the k-th energy are those of the k-th successful point
SamePoint(att, vpa, bepa) ==
    /\ Len(vpa) = Len(OkPoints(att))
    /\ Len(bepa) = Len(OkPoints(att))
    /\ \A k \in 1..Len(OkPoints(att)) :
           /\ vpa[k] = VolumePerAtomAt(OkPoints(att)[k].cell)
           /\ bepa[k] = EnergyPerAtomAt(OkPoints(att)[k].cell)

C17_PairedInv ==
    /\ pc = "loop"
           => SamePoint(attempted, volume_per_atom, binding_potential_energy_per_atom)
    /\ \A j \in 1..Len(scanLog) :
           SamePoint(scanLog[j].attempted,
                     Value(RecordOf(scanLog[j]), "volume-per-atom"),
                     Value(RecordOf(scanLog[j]), "binding-potential-energy-per-atom"))

C17_FreshAct ==
    (PointStep /\ Len(binding_potential_energy_per_atom')
                      = Len(binding_potential_energy_per_atom) + 1)
        => LET c == attempted'[Len(attempted')].cell
               n == Len(binding_potential_energy_per_atom')
           IN  /\ potential_energy' = RatMul(RatInt(structure.num_atoms), EnergyPerAtomAt(c))
               /\ binding_potential_energy_per_atom'[n] = EnergyPerAtomAt(c)
               /\ binding_potential_energy_per_formula'[n]
                      = RatMul(EnergyPerAtomAt(c), RatInt(num_atoms_in_formula))

\* C17: whenever a sample is appended at a grid point, its two energy entries
\* come from the energy evaluated for the cell of that same point, never from
\* the value an earlier point left in potential_energy; so the k-th energy
\* and the k-th volume of a record stem from the same grid point.
C17_NoStaleEnergy == []C17_PairedInv /\ [][C17_FreshAct]_vars

\* a success, a failure that leaves the first energy in potential_energy,
\* then a success whose entry is its own energy
C17_Witness ==
    /\ pc = "loop"
    /\ Len(attempted) = 3
    /\ attempted[1].ok
    /\ ~attempted[2].ok
    /\ attempted[3].ok
    /\ Len(binding_potential_energy_per_atom) = 2
    /\ binding_potential_energy_per_atom[2] = EnergyPerAtomAt(attempted[3].cell)
    /\ binding_potential_energy_per_atom[2] # binding_potential_energy_per_atom[1]
    /\ volume_per_atom[2] = VolumePerAtomAt(attempted[3].cell)

\* --------------------------------------------------------------------- C18
\* the records a logged scan appended: numbers first..last of the list
RecordsOf(e) == [k \in 1..(e.last - e.first + 1) |-> property_instances[e.first + k - 1]]

C18_RecordsInv ==
    \A j \in 1..Len(scanLog) :
        LET e == scanLog[j]
            recs == RecordsOf(e)
            pts == OkPoints(e.attempted)
        IN  /\ e.first <= e.last
            /\ e.last <= Len(property_instances)
            /\ recs[Len(recs)].property_name = EVV
            /\ CurveKeys \subseteq DOMAIN recs[Len(recs)].keys
            /\ variant = "inplace" => Len(recs) = 1
            /\ variant = "symaware" =>
                   /\ Len(recs) = Len(pts) + 1
                   /\ \A k \in 1..Len(pts) :
                          /\ recs[k].property_name = NPT
                          /\ recs[k].crystal = pts[k].cell
                          /\ CurveKeys \cap DOMAIN recs[k].keys = {}

C18_RecordsAct ==
    /\ (PointStep /\ variant = "inplace") => property_instances' = property_instances
    /\ (PointStep /\ variant = "symaware")
           => IF lastOutcome' = "ok"
              THEN /\ Len(property_instances') = Len(property_instances) + 1
                   /\ property_instances'[Len(property_instances')].property_name = NPT
                   /\ property_instances'[Len(property_instances')].crystal = cell'
                   /\ cell' = attempted'[Len(attempted')].cell
              ELSE property_instances' = property_instances
    /\ (pc = "loop" /\ callStatus' = "returned")
           => /\ Len(property_instances') = Len(property_instances) + 1
              /\ property_instances'[Len(property_instances')].property_name = EVV
              /\ scanLog'[Len(scanLog')].first = firstIndex
              /\ scanLog'[Len(scanLog')].last = Len(property_instances')
    /\ (pc = "idle" /\ pc' = "loop") => firstIndex' = Len(property_instances) + 1

\* C18: a scan of the symmetry-aware variant appends one
\* crystal-structure-npt record per successful grid point, in grid order,
\* each holding the nominal structure updated to that point's deformed
\* structure, and then one energy-vs-volume record, the last it appends; the
\* four sequence keys are on the energy-vs-volume record and on no
\* crystal-structure-npt record. A scan of the in-place variant appends one
\* record.
C18_RecordsOfAScan == []C18_RecordsInv /\ [][C18_RecordsAct]_vars

\* a symmetry-aware scan of three points, the second one failed: two
\* crystal-structure-npt records, then the energy-vs-volume record
C18_Witness ==
    /\ variant = "symaware"
    /\ Returned
    /\ Len(scanLog) = 1
    /\ Succeeded(scanLog[1]) = {1, 3}
    /\ Len(property_instances) = 3
    /\ property_instances[1].property_name = NPT
    /\ property_instances[2].property_name = NPT
    /\ property_instances[1].crystal # property_instances[2].crystal
    /\ property_instances[3].property_name = EVV
    /\ CurveKeys \subseteq DOMAIN property_instances[3].keys
    /\ DOMAIN property_instances[1].keys = {}

\* --------------------------------------------------------------------- C19
\* no scan runs its loop with num_steps = 0
C19_NoZeroScan ==
    /\ pc = "loop" => num_steps >= 1
    /\ \A j \in 1..Len(scanLog) : scanLog[j].num_steps >= 1

\* a call that raises before its loop leaves the structure, the grid points
\* and the records as they were
C19_EarlyRaiseAct ==
    /\ (pc = "idle" /\ pc' = "idle" /\ callStatus' = "raised")
           => /\ cell' = cell
              /\ property_instances' = property_instances
              /\ pointsUsed' = pointsUsed
              /\ attempted' = attempted
              /\ scanLog' = scanLog
    /\ (pc = "idle" /\ pc' = "loop") => num_steps' >= 1

\* C19: a call with num_steps = 0 fails at the division of the step size,
\* outside the recovery of the grid points: it raises to its caller without
\* deforming the structure, without evaluating a grid point and without
\* appending a record.
C19_ZeroStepsRaises == []C19_NoZeroScan /\ [][C19_EarlyRaiseAct]_vars

\* a call with num_steps = 0 after a scan that returned: the call has raised,
\* the points and the records are those of the first scan
C19_Witness ==
    /\ pc = "idle"
    /\ callStatus = "raised"
    /\ Len(scanLog) = 1
    /\ pointsUsed = Len(scanLog[1].attempted)
    /\ attempted = scanLog[1].attempted
    /\ Len(property_instances) = scanLog[1].last
    /\ cell = scanLog[1].cell_after

====
